---- MODULE Spec2Model ----
(***************************************************************************)
(* Inventory management: the Item record, its CSV codec, and the           *)
(* InventoryManager store with its backing file.                           *)
(*                                                                         *)
(* Text is a sequence of one-character strings.  An int is a number of     *)
(* INT_MIN..INT_MAX; a double is an amount in hundredths (the precision    *)
(* toCSV writes) or the NaN.                                               *)
(***************************************************************************)
EXTENDS Integers, Sequences, FiniteSets, TLC

(***************************************************************************)
(* int.  A signed addition that overflows is undefined behaviour; the      *)
(* program as g++ builds it, optimised or not, stores the two's-complement *)
(* sum, and IntAdd is that sum.                                            *)
(***************************************************************************)
INT_MAX == 2147483647
INT_MIN == -INT_MAX - 1

IntAdd(a, b) ==
    IF b >= 0
    THEN IF a > INT_MAX - b THEN (a + INT_MIN) + (b + INT_MIN) ELSE a + b
    ELSE IF a < INT_MIN - b THEN ((a + INT_MAX) + 1) + ((b + INT_MAX) + 1)
         ELSE a + b

\* a * b on int for b >= 0, wrapping at the ends of int as IntAdd does
RECURSIVE IntMul(_, _)
IntTwice(a) == IntAdd(a, a)

IntMul(a, b) ==
    IF b = 0 THEN 0
    ELSE IF b % 2 = 0 THEN IntTwice(IntMul(a, b \div 2))
    ELSE IntAdd(IntTwice(IntMul(a, b \div 2)), a)

(***************************************************************************)
(* double                                                                  *)
(***************************************************************************)
Dbl(c) == [nan |-> FALSE, c |-> c]

NaN == [nan |-> TRUE, c |-> 0]

\* x < y and x >= y on doubles: both are false when either is the NaN
DblLess(x, y) == ~x.nan /\ ~y.nan /\ x.c < y.c

DblGeq(x, y) == ~x.nan /\ ~y.nan /\ x.c >= y.c

(***************************************************************************)
(* Characters                                                              *)
(***************************************************************************)
Comma == ","
Quote == "\""
NL    == "\n"

Digits == <<"0", "1", "2", "3", "4", "5", "6", "7", "8", "9">>

IsDigit(c) == \E d \in 1..10 : Digits[d] = c

DigitVal(c) == (CHOOSE d \in 1..10 : Digits[d] = c) - 1

\* isspace, over the characters of the model
IsSpace(c) == c = NL \/ c = " "

\* The text of s from position i on
Drop(s, i) == SubSeq(s, i, Len(s))

Contains(s, c) == \E i \in 1..Len(s) : s[i] = c

(***************************************************************************)
(* Number formatting: operator<< on int / time_t, and on double under      *)
(* std::fixed << std::setprecision(2)                                      *)
(***************************************************************************)
RECURSIVE NatToStr(_)
NatToStr(n) ==
    IF n < 10 THEN <<Digits[n + 1]>>
    ELSE NatToStr(n \div 10) \o <<Digits[(n % 10) + 1]>>

IntMaxDigits == <<"2", "1", "4", "7", "4", "8", "3", "6", "4", "7">>

IntMinDigits == <<"2", "1", "4", "7", "4", "8", "3", "6", "4", "8">>

IntToStr(n) ==
    IF n = INT_MIN THEN <<"-">> \o IntMinDigits
    ELSE IF n < 0 THEN <<"-">> \o NatToStr(-n)
    ELSE NatToStr(n)

FixedToStr(d) ==
    IF d.nan THEN <<"n", "a", "n">>
    ELSE LET a == IF d.c < 0 THEN -d.c ELSE d.c
         IN  (IF d.c < 0 THEN <<"-">> ELSE <<>>)
             \o NatToStr(a \div 100) \o <<".">>
             \o <<Digits[((a % 100) \div 10) + 1], Digits[(a % 10) + 1]>>

(***************************************************************************)
(* Number parsing: std::stoi / std::stoll / std::stod.  Leading white      *)
(* space is skipped, a sign is optional, the longest numeric prefix is     *)
(* converted and the rest of the text is ignored; no digits at all is      *)
(* std::invalid_argument, a value outside the type is std::out_of_range.   *)
(* The texts of the model hold decimal numbers and nan: no exponents, no   *)
(* hexadecimal, no infinities, and dates below 2^31.                       *)
(***************************************************************************)
RECURSIVE SkipSpace(_)
SkipSpace(s) ==
    IF s # <<>> /\ IsSpace(Head(s)) THEN SkipSpace(Tail(s)) ELSE s

\* Number of leading digits of s
RECURSIVE DigitRun(_)
DigitRun(s) ==
    IF s # <<>> /\ IsDigit(Head(s)) THEN 1 + DigitRun(Tail(s)) ELSE 0

\* Value of a text of digits
RECURSIVE DigitsVal(_)
DigitsVal(s) ==
    IF s = <<>> THEN 0
    ELSE DigitsVal(SubSeq(s, 1, Len(s) - 1)) * 10 + DigitVal(s[Len(s)])

Throws == [ok |-> FALSE, val |-> 0]

\* The digits without their leading zeros
RECURSIVE StripZeros(_)
StripZeros(ds) ==
    IF ds # <<>> /\ Head(ds) = "0" THEN StripZeros(Tail(ds)) ELSE ds

\* a <= b for two texts of digits of the same length
RECURSIVE DigitsLeq(_, _)
DigitsLeq(a, b) ==
    IF a = <<>> THEN TRUE
    ELSE IF Head(a) # Head(b) THEN DigitVal(Head(a)) < DigitVal(Head(b))
    ELSE DigitsLeq(Tail(a), Tail(b))

\* Of a text without leading white space: has it a sign, is the sign a
\* minus, and what follows the sign
Signed(s) == s # <<>> /\ (Head(s) = "-" \/ Head(s) = "+")

Negative(s) == s # <<>> /\ Head(s) = "-"

Unsigned(s) == IF Signed(s) THEN Tail(s) ELSE s

\* The leading digits of s
DigitPrefix(s) == SubSeq(s, 1, DigitRun(s))

\* The int of the digits ds, which have no leading zeros
IntOfDigits(neg, ds) ==
    IF neg /\ ds = IntMinDigits THEN [ok |-> TRUE, val |-> INT_MIN]
    ELSE IF Len(ds) > 10 \/ (Len(ds) = 10 /\ ~DigitsLeq(ds, IntMaxDigits))
    THEN Throws
    ELSE [ok |-> TRUE, val |-> IF neg THEN -DigitsVal(ds) ELSE DigitsVal(ds)]

\* The int of the leading digits run of the text
IntOfRun(neg, run) ==
    IF run = <<>> THEN Throws ELSE IntOfDigits(neg, StripZeros(run))

\* stoi of a text s without leading white space
IntOfText(s) == IntOfRun(Negative(s), DigitPrefix(Unsigned(s)))

stoi(text) == IntOfText(SkipSpace(text))

\* On the dates of the model, which are below 2^31, stoll is stoi
stoll(text) == stoi(text)

IsNanText(s) ==
    /\ Len(s) >= 3
    /\ s[1] \in {"n", "N"}
    /\ s[2] \in {"a", "A"}
    /\ s[3] \in {"n", "N"}

\* The amount with the digits whole before the point and frac after it.
\* The amounts of the model's texts carry at most two fraction digits;
\* further digits are consumed without effect.
Hundredths(whole, frac) ==
    DigitsVal(whole) * 100
    + (IF Len(frac) >= 1 THEN DigitVal(frac[1]) * 10 ELSE 0)
    + (IF Len(frac) >= 2 THEN DigitVal(frac[2]) ELSE 0)

DblOfDigits(neg, whole, frac) ==
    IF whole = <<>> /\ frac = <<>> THEN [ok |-> FALSE, val |-> Dbl(0)]
    ELSE [ok |-> TRUE,
          val |-> Dbl(IF neg THEN -Hundredths(whole, frac)
                      ELSE Hundredths(whole, frac))]

\* rest is the text after the digits whole
DblOfParts(neg, whole, rest) ==
    DblOfDigits(neg, whole,
                IF rest # <<>> /\ Head(rest) = "." THEN DigitPrefix(Tail(rest))
                ELSE <<>>)

\* body is the text after the sign
DblOfBody(neg, body) ==
    IF IsNanText(body) THEN [ok |-> TRUE, val |-> NaN]
    ELSE DblOfParts(neg, DigitPrefix(body), Drop(body, DigitRun(body) + 1))

\* stod of a text s without leading white space
DblOfText(s) == DblOfBody(Negative(s), Unsigned(s))

stod(text) == DblOfText(SkipSpace(text))

(***************************************************************************)
(* Item::escapeCSV and Item::parseCSVLine                                  *)
(***************************************************************************)
RECURSIVE DoubleQuotes(_)
DoubleQuotes(s) ==
    IF s = <<>> THEN <<>>
    ELSE (IF Head(s) = Quote THEN <<Quote, Quote>> ELSE <<Head(s)>>)
         \o DoubleQuotes(Tail(s))

escapeCSV(field) ==
    IF Contains(field, Comma) \/ Contains(field, Quote) \/ Contains(field, NL)
    THEN <<Quote>> \o DoubleQuotes(field) \o <<Quote>>
    ELSE field

\* The scanner's loop from position i, with the fields completed so far,
\* the field being built and the quoting state.
RECURSIVE ScanCSV(_, _, _, _, _)
ScanCSV(line, i, fields, field, inQuotes) ==
    IF i > Len(line) THEN Append(fields, field)
    ELSE LET c == line[i]
         IN  IF c = Quote
             THEN IF inQuotes /\ i + 1 <= Len(line) /\ line[i + 1] = Quote
                  THEN ScanCSV(line, i + 2, fields, Append(field, Quote), inQuotes)
                  ELSE ScanCSV(line, i + 1, fields, field, ~inQuotes)
             ELSE IF c = Comma /\ ~inQuotes
                  THEN ScanCSV(line, i + 1, Append(fields, field), <<>>, inQuotes)
                  ELSE ScanCSV(line, i + 1, fields, Append(field, c), inQuotes)

parseCSVLine(line) == ScanCSV(line, 1, <<>>, <<>>, FALSE)

(***************************************************************************)
(* class Item                                                              *)
(***************************************************************************)
\* The record an Item object holds
MkItem(id, name, category, supplier, barcode, quantity, minimumStock, cost, sellingPrice, dateAdded, lastModified, expiryDate, location, description) ==
    [id |-> id, name |-> name, category |-> category, supplier |-> supplier,
     barcode |-> barcode, quantity |-> quantity, minimumStock |-> minimumStock,
     cost |-> cost, sellingPrice |-> sellingPrice, dateAdded |-> dateAdded,
     lastModified |-> lastModified, expiryDate |-> expiryDate,
     location |-> location, description |-> description]

NoItem == MkItem(0, <<>>, <<>>, <<>>, <<>>, 0, 0, Dbl(0), Dbl(0), 0, 0, 0, <<>>, <<>>)

\* validateInput without its check of the cost
validateInputNoCost(it) ==
    /\ it.name # <<>>
    /\ ~(it.quantity < 0)
    /\ ~DblLess(it.sellingPrice, Dbl(0))

\* TRUE when validateInput returns, FALSE when it throws
validateInput(it) ==
    /\ it.name # <<>>
    /\ ~(it.quantity < 0)
    /\ ~DblLess(it.cost, Dbl(0))
    /\ ~DblLess(it.sellingPrice, Dbl(0))

\* Item::Item: takes the next id (also when validation then throws),
\* stamps both dates with the clock t, takes the generated barcode bc.
Constructed(it, nid) ==
    [ok |-> validateInput(it), item |-> it, nextId |-> IntAdd(nid, 1)]

ItemCtor(nid, name, category, quantity, cost, sellingPrice, supplier, location, minimumStock, t, bc) ==
    Constructed(MkItem(nid, name, category, supplier, bc, quantity,
                       minimumStock, cost, sellingPrice, t, t, 0, location,
                       <<>>),
                nid)

\* Setters: ok is FALSE when the setter throws, and the item is then untouched
setName(it, newName, t) ==
    IF newName = <<>> THEN [ok |-> FALSE, item |-> it]
    ELSE [ok |-> TRUE, item |-> [it EXCEPT !.name = newName, !.lastModified = t]]

setQuantity(it, newQuantity, t) ==
    IF newQuantity < 0 THEN [ok |-> FALSE, item |-> it]
    ELSE [ok |-> TRUE,
          item |-> [it EXCEPT !.quantity = newQuantity, !.lastModified = t]]

\* setCost that also throws on a cost of zero
setCostPositive(it, newCost, t) ==
    IF ~DblLess(Dbl(0), newCost) THEN [ok |-> FALSE, item |-> it]
    ELSE [ok |-> TRUE, item |-> [it EXCEPT !.cost = newCost, !.lastModified = t]]

setCost(it, newCost, t) ==
    IF DblLess(newCost, Dbl(0)) THEN [ok |-> FALSE, item |-> it]
    ELSE [ok |-> TRUE, item |-> [it EXCEPT !.cost = newCost, !.lastModified = t]]

updateQuantity(it, delta, t) ==
    LET newQuantity == IntAdd(it.quantity, delta)
    IN  IF newQuantity < 0 THEN [ok |-> FALSE, item |-> it]
        ELSE [ok |-> TRUE,
              item |-> [it EXCEPT !.quantity = newQuantity, !.lastModified = t]]

\* isLowStock without the boundary
isLowStockBelow(it) == it.quantity < it.minimumStock

isLowStock(it) == it.quantity <= it.minimumStock

\* daysThreshold * 24 * 60 * 60, a product of ints
SecondsOf(daysThreshold) == IntMul(IntMul(IntMul(daysThreshold, 24), 60), 60)

\* Item::isExpiringSoon at the clock reading t: expiryDate <= t + the
\* product, a sum of time_t
isExpiringSoon(it, daysThreshold, t) ==
    IF it.expiryDate = 0 THEN FALSE
    ELSE it.expiryDate - t <= SecondsOf(daysThreshold)

\* Item::isExpired at the clock reading t
isExpired(it, t) ==
    IF it.expiryDate = 0 THEN FALSE ELSE it.expiryDate <= t

\* The default of isExpiringSoon's parameter
DefaultDays == 30

\* The status displayItems prints for the item it
Status(it, t) ==
    IF isLowStock(it) THEN "LOW"
    ELSE IF isExpiringSoon(it, DefaultDays, t) THEN "EXP SOON"
    ELSE IF isExpired(it, t) THEN "EXPIRED"
    ELSE "OK"

\* Join the texts of a sequence with commas
RECURSIVE JoinComma(_)
JoinComma(ss) ==
    IF ss = <<>> THEN <<>>
    ELSE IF Len(ss) = 1 THEN Head(ss)
    ELSE Head(ss) \o <<Comma>> \o JoinComma(Tail(ss))

toCSV(it) ==
    JoinComma(<<IntToStr(it.id), escapeCSV(it.name), escapeCSV(it.category),
                escapeCSV(it.supplier), it.barcode, IntToStr(it.quantity),
                IntToStr(it.minimumStock), FixedToStr(it.cost),
                FixedToStr(it.sellingPrice), IntToStr(it.dateAdded),
                IntToStr(it.lastModified), IntToStr(it.expiryDate),
                escapeCSV(it.location), escapeCSV(it.description)>>)

\* The fields f of a line with their conversions: those of the
\* constructor's arguments, and those made after construction.
Converted(f, qty, minS, cst, sell, idv, dAdd, lMod, expD) ==
    [enough |-> TRUE,
     argsOk |-> qty.ok /\ cst.ok /\ sell.ok /\ minS.ok,
     name |-> f[2], category |-> f[3], quantity |-> qty.val,
     cost |-> cst.val, sellingPrice |-> sell.val, supplier |-> f[4],
     location |-> f[13], minimumStock |-> minS.val,
     restOk |-> idv.ok /\ dAdd.ok /\ lMod.ok /\ expD.ok,
     id |-> idv.val, barcode |-> f[5], dateAdded |-> dAdd.val,
     lastModified |-> lMod.val, expiryDate |-> expD.val,
     description |-> f[14]]

ConvertFields(f) ==
    IF Len(f) < 14 THEN [enough |-> FALSE]
    ELSE Converted(f, stoi(f[6]), stoi(f[7]), stod(f[8]), stod(f[9]),
                   stoi(f[1]), stoll(f[10]), stoll(f[11]), stoll(f[12]))

\* The text work of Item::fromCSV on one line, which does not depend on
\* the id counter: the split into fields and the conversions.
ParseRecord(csvLine) == ConvertFields(parseCSVLine(csvLine))

\* What fromCSV throws away the item and leaves the counter at
Failed(nid) == [ok |-> FALSE, item |-> NoItem, nextId |-> nid]

\* The item the constructor made, with the fields fromCSV then assigns: the
\* clock reading and the barcode the constructor took are overwritten.
Assigned(p, it) ==
    [it EXCEPT !.id = p.id, !.barcode = p.barcode,
               !.dateAdded = p.dateAdded, !.lastModified = p.lastModified,
               !.expiryDate = p.expiryDate, !.description = p.description]

\* fromCSV once the constructor has run with the result made
AfterCtor(p, made) ==
    IF ~made.ok THEN Failed(made.nextId)
    ELSE IF ~p.restOk THEN Failed(made.nextId)
    ELSE [ok |-> TRUE, item |-> Assigned(p, made.item),
          nextId |-> IF p.id >= made.nextId THEN IntAdd(p.id, 1)
                     ELSE made.nextId]

\* Item::fromCSV on a parsed line with the id counter at nid.  ok is FALSE
\* when it throws; nextId is the counter afterwards in either case.
FromParsed(p, nid) ==
    IF ~p.enough THEN Failed(nid)
    ELSE IF ~p.argsOk THEN Failed(nid)
    ELSE AfterCtor(p, ItemCtor(nid, p.name, p.category, p.quantity, p.cost,
                               p.sellingPrice, p.supplier, p.location,
                               p.minimumStock, 0, <<>>))

fromCSV(csvLine, nid) == FromParsed(ParseRecord(csvLine), nid)

getCSVHeader ==
    <<"I", "D", ",", "N", "a", "m", "e", ",", "C", "a", "t", "e", "g", "o",
      "r", "y", ",", "S", "u", "p", "p", "l", "i", "e", "r", ",", "B", "a",
      "r", "c", "o", "d", "e", ",", "Q", "u", "a", "n", "t", "i", "t", "y",
      ",", "M", "i", "n", "i", "m", "u", "m", "S", "t", "o", "c", "k", ",",
      "C", "o", "s", "t", ",", "S", "e", "l", "l", "i", "n", "g", "P", "r",
      "i", "c", "e", ",", "D", "a", "t", "e", "A", "d", "d", "e", "d", ",",
      "L", "a", "s", "t", "M", "o", "d", "i", "f", "i", "e", "d", ",", "E",
      "x", "p", "i", "r", "y", "D", "a", "t", "e", ",", "L", "o", "c", "a",
      "t", "i", "o", "n", ",", "D", "e", "s", "c", "r", "i", "p", "t", "i",
      "o", "n">>

(***************************************************************************)
(* Files.  A file is absent, or holds a text somebody wrote, or holds what *)
(* saveToFile / exportToCSV wrote for a sequence of records; of the last   *)
(* kind the state keeps the records and FileText gives the text.           *)
(* std::getline cuts a text into lines at every newline, and a last line   *)
(* without a newline is still a line.                                      *)
(***************************************************************************)
NoFile == [exists |-> FALSE, saved |-> FALSE, text |-> <<>>, records |-> <<>>]

TextFile(text) ==
    [exists |-> TRUE, saved |-> FALSE, text |-> text, records |-> <<>>]

SavedFile(its) ==
    [exists |-> TRUE, saved |-> TRUE, text |-> <<>>, records |-> its]

\* What saveToFile and exportToCSV write for the records its
RECURSIVE RecordLines(_)
RecordLines(its) ==
    IF its = <<>> THEN <<>>
    ELSE toCSV(Head(its)) \o <<NL>> \o RecordLines(Tail(its))

SaveText(its) == getCSVHeader \o <<NL>> \o RecordLines(its)

\* The characters in an existing file
FileText(f) == IF f.saved THEN SaveText(f.records) ELSE f.text

\* Position of the first newline of text at or after i, 0 when there is none
NextNL(text, i) ==
    IF \E j \in i..Len(text) : text[j] = NL
    THEN CHOOSE j \in i..Len(text) :
            /\ text[j] = NL
            /\ \A k \in i..(j - 1) : text[k] # NL
    ELSE 0

\* The lines successive getline calls return once i - 1 characters are read
RECURSIVE LinesFrom(_, _)
LinesFrom(text, i) ==
    IF i > Len(text) THEN <<>>
    ELSE LET j == NextNL(text, i)
         IN  IF j = 0 THEN <<SubSeq(text, i, Len(text))>>
             ELSE <<SubSeq(text, i, j - 1)>> \o LinesFrom(text, j + 1)

getlines(text) == LinesFrom(text, 1)

\* The lines the read loops decode: the first getline result is thrown
\* away, empty lines are passed over, every other line is parsed.
RECURSIVE ParseEach(_)
ParseEach(lines) ==
    IF lines = <<>> THEN <<>>
    ELSE IF Head(lines) = <<>> THEN ParseEach(Tail(lines))
    ELSE <<ParseRecord(Head(lines))>> \o ParseEach(Tail(lines))

\* A read loop that throws the first line away only when it is the header
ParseLinesHeader(text) ==
    LET lines == getlines(text)
    IN  ParseEach(IF lines # <<>> /\ Head(lines) = getCSVHeader
                  THEN Tail(lines) ELSE lines)

ParseLines(text) ==
    LET lines == getlines(text)
    IN  ParseEach(IF lines = <<>> THEN <<>> ELSE Tail(lines))

(***************************************************************************)
(* The files a user imports                                                *)
(***************************************************************************)
General == <<"G", "e", "n", "e", "r", "a", "l">>

Barcode1 == <<"1", "0", "0", "0", "0", "0", "0", "0", "0">>

LineGood ==
    JoinComma(<< <<"1">>, <<"a">>, General, <<>>, Barcode1, <<"1">>, <<"5">>,
                 <<"2", ".", "5", "0">>, <<"0", ".", "0", "0">>, <<"1">>,
                 <<"1">>, <<"0">>, <<>>, <<>> >>)

\* the barcode field is "4""2", which decodes to 4"2
LineQuotedBarcode ==
    JoinComma(<< <<"3">>, <<"a">>, General, <<>>,
                 <<Quote, "4", Quote, Quote, "2", Quote>>, <<"1">>, <<"5">>,
                 <<"2", ".", "5">>, <<"0">>, <<"1">>, <<"1">>, <<"0">>,
                 <<>>, <<>> >>)

\* minimum stock -1, added at 2 and last modified at 1
LineOddNumbers ==
    JoinComma(<< <<"2">>, <<"a">>, General, <<>>, Barcode1, <<"1">>,
                 <<"-", "1">>, <<"2", ".", "5">>, <<"0">>, <<"2">>, <<"1">>,
                 <<"0">>, <<>>, <<>> >>)

LineTooShort == <<"x", Comma, "y">>

LineNegativeQty ==
    JoinComma(<< <<"3">>, <<"a">>, General, <<>>, Barcode1, <<"-", "1">>,
                 <<"5">>, <<"1">>, <<"0">>, <<"1">>, <<"1">>, <<"0">>,
                 <<>>, <<>> >>)

LineBadId ==
    JoinComma(<< <<"x">>, <<"a">>, General, <<>>, Barcode1, <<"1">>,
                 <<"5">>, <<"1">>, <<"0">>, <<"1">>, <<"1">>, <<"0">>,
                 <<>>, <<>> >>)

\* the cost field is nan
LineNaNCost ==
    JoinComma(<< <<"1">>, <<"a">>, General, <<>>, Barcode1, <<"1">>, <<"5">>,
                 <<"n", "a", "n">>, <<"0">>, <<"1">>, <<"1">>, <<"0">>,
                 <<>>, <<>> >>)

\* the quantity is INT_MAX + 1
LineHugeQty ==
    JoinComma(<< <<"2">>, <<"a">>, General, <<>>, Barcode1, IntMinDigits,
                 <<"5">>, <<"1">>, <<"0">>, <<"1">>, <<"1">>, <<"0">>,
                 <<>>, <<>> >>)

\* the id is INT_MAX - 1
LineLastId ==
    JoinComma(<< <<"2", "1", "4", "7", "4", "8", "3", "6", "4", "6">>, <<"a">>,
                 General, <<>>, Barcode1, <<"1">>, <<"5">>, <<"1">>, <<"0">>,
                 <<"1">>, <<"1">>, <<"0">>, <<>>, <<>> >>)

RECURSIVE TextOf(_)
TextOf(lines) ==
    IF lines = <<>> THEN <<>> ELSE Head(lines) \o <<NL>> \o TextOf(Tail(lines))

UserFiles ==
    { TextFile(TextOf(<<getCSVHeader, LineGood>>)),
      TextFile(TextOf(<<getCSVHeader, LineQuotedBarcode, LineTooShort>>)),
      TextFile(TextOf(<<getCSVHeader, LineNegativeQty, <<>>, LineOddNumbers>>)),
      TextFile(TextOf(<<LineGood, LineBadId, LineGood>>)),
      TextFile(TextOf(<<getCSVHeader, LineNaNCost, LineHugeQty>>)),
      TextFile(TextOf(<<getCSVHeader, LineLastId>>)) }

\* ParseLines of each user file, worked out once
UserParsed == [f \in UserFiles |-> ParseLines(f.text)]

(***************************************************************************)
(* The read loop of loadFromFile and importFromCSV                         *)
(***************************************************************************)
Parsed(f) ==
    IF f \in DOMAIN UserParsed THEN UserParsed[f] ELSE ParseLines(FileText(f))

\* Over the parsed lines ps: a line that decodes is appended, one that
\* throws is counted and skipped.  ReadNext goes on after the line whose
\* decoding gave r.
RECURSIVE ReadLoop(_, _, _, _, _)
RECURSIVE ReadNext(_, _, _, _, _)
ReadLoop(ps, its, nid, imported, errors) ==
    IF ps = <<>>
    THEN [items |-> its, nextId |-> nid, imported |-> imported, errors |-> errors]
    ELSE ReadNext(Tail(ps), its, FromParsed(Head(ps), nid), imported, errors)

ReadNext(rest, its, r, imported, errors) ==
    IF r.ok
    THEN ReadLoop(rest, Append(its, r.item), r.nextId, imported + 1, errors)
    ELSE ReadLoop(rest, its, r.nextId, imported, errors + 1)

\* Reading the existing file f into the records its with the counter at nid
ReadFile(f, its, nid) == ReadLoop(Parsed(f), its, nid, 0, 0)

\* findItemById that gives the last record when none has the id
findItemByIdOrLast(its, id) ==
    IF \E i \in 1..Len(its) : its[i].id = id
    THEN CHOOSE i \in 1..Len(its) :
            /\ its[i].id = id
            /\ \A j \in 1..(i - 1) : its[j].id # id
    ELSE Len(its)

\* Index of the first record with the given id, 0 when there is none
findItemById(its, id) ==
    IF \E i \in 1..Len(its) : its[i].id = id
    THEN CHOOSE i \in 1..Len(its) :
            /\ its[i].id = id
            /\ \A j \in 1..(i - 1) : its[j].id # id
    ELSE 0

\* The erase that also drops every record after the one at i
RemoveFrom(its, i) == SubSeq(its, 1, i - 1)

RemoveAt(its, i) == SubSeq(its, 1, i - 1) \o SubSeq(its, i + 1, Len(its))

IdsOf(its) == {its[i].id : i \in 1..Len(its)}

(***************************************************************************)
(* InventoryManager::toLower and std::string::find                         *)
(***************************************************************************)
UpperCase ==
    <<"A", "B", "C", "D", "E", "F", "G", "H", "I", "J", "K", "L", "M", "N",
      "O", "P", "Q", "R", "S", "T", "U", "V", "W", "X", "Y", "Z">>

LowerCase ==
    <<"a", "b", "c", "d", "e", "f", "g", "h", "i", "j", "k", "l", "m", "n",
      "o", "p", "q", "r", "s", "t", "u", "v", "w", "x", "y", "z">>

\* ::tolower in the C locale
tolower(c) ==
    IF \E k \in 1..26 : UpperCase[k] = c
    THEN LowerCase[CHOOSE k \in 1..26 : UpperCase[k] = c]
    ELSE c

\* toLower with the characters left as they are
toLowerKept(str) == str

toLower(str) == [k \in 1..Len(str) |-> tolower(str[k])]

\* str.find(sub) != std::string::npos
Found(str, sub) ==
    \E k \in 0..(Len(str) - Len(sub)) : SubSeq(str, k + 1, k + Len(sub)) = sub

\* The test of searchItems on one item
Matches(it, searchTerm) ==
    \/ Found(toLower(it.name), toLower(searchTerm))
    \/ Found(toLower(it.category), toLower(searchTerm))
    \/ Found(toLower(it.supplier), toLower(searchTerm))
    \/ Found(it.barcode, searchTerm)

(***************************************************************************)
(* Bounds and inputs                                                       *)
(***************************************************************************)
MaxItems  == 2      \* most records the Store holds
MaxNextId == 4      \* most steps the id counter is taken from 0, or from
                    \* where it wrapped
MaxNow    == 2      \* last reading of the clock
MaxQty    == 1      \* largest quantity adjustQuantity produces

\* How far the id counter is from 0, or from below INT_MIN once negative
CounterSteps(n) == IF n >= 0 THEN n ELSE (n + INT_MAX) + 2

\* The counter values the model goes on from: within MaxNextId steps, or
\* at the last int
CounterInBounds(n) == CounterSteps(n) <= MaxNextId \/ n = INT_MAX

AddArgs(name, category, quantity, cost, sellingPrice, supplier, location, minimumStock) ==
    [name |-> name, category |-> category, quantity |-> quantity,
     cost |-> cost, sellingPrice |-> sellingPrice, supplier |-> supplier,
     location |-> location, minimumStock |-> minimumStock]

\* addItem(name, quantity, cost): the defaults of the short overload
BasicArgs(name, quantity, cost) ==
    AddArgs(name, General, quantity, cost, Dbl(0), <<>>, <<>>, 5)

ValidAdds ==
    { BasicArgs(<<"a">>, 1, Dbl(250)),
      AddArgs(<<"B", Comma, Quote>>, <<"t">>, 1, Dbl(250), Dbl(400), <<"T">>,
              <<"w">>, -1) }

InvalidAdds ==
    { BasicArgs(<<>>, 1, Dbl(250)),
      BasicArgs(<<"a">>, -1, Dbl(250)),
      BasicArgs(<<"a">>, 1, Dbl(-1)),
      AddArgs(<<"a">>, General, 1, Dbl(250), Dbl(-1), <<>>, <<>>, 5) }

AddInputs == ValidAdds \cup InvalidAdds

\* What generateBarcode draws: one of its nine-digit values
GenBarcodes == {Barcode1}

\* updateItem's default for a cost that is not given: -1.0
Unset == Dbl(-100)

IdInputs     == 1..MaxNextId
NameInputs   == {<<>>, <<"z">>}
QtyInputs    == {-1, 0}
CostInputs   == {Unset, Dbl(0), NaN}
DeltaInputs  == {-1, 1, INT_MAX}

(***************************************************************************)
(* State                                                                   *)
(***************************************************************************)
VARIABLES
    up,         \* a process is running (an InventoryManager exists)
    items,      \* InventoryManager::items
    nextId,     \* Item::nextId
    dataFile,   \* the file named InventoryManager::dataFile
    now,        \* std::time(nullptr)
    ret,        \* what the last call of an operation returned
    hiId,       \* ids the Store has held in this process: {} or {largest}
    fresh,      \* the process has started and no add has succeeded in it yet
    prevIds,    \* while fresh: ids in the Store when the previous process ended
    call,       \* the operation called last, where the calls are recorded
    out,        \* the records the last search or low stock listing collected
    exportFile, \* the file at the path a user exports to
    session     \* where the writes are recorded: the backing file when the
                \* process started and after its last call that returned true

vars == <<up, items, nextId, dataFile, now, ret, hiId, fresh, prevIds, call, out, exportFile, session>>

\* The value of call where the calls are not recorded
NoLog == "-"

\* The operation named is being called
Called(name) == call' = IF call = NoLog THEN NoLog ELSE name

MaxId(S) == CHOOSE m \in S : \A x \in S : x <= m

\* hiId after the Store has come to hold the records its
Raise(hi, its) ==
    IF hi \cup IdsOf(its) = {} THEN {} ELSE {MaxId(hi \cup IdsOf(its))}

\* Before main: no process, no files
InitStore ==
    /\ up = FALSE
    /\ items = <<>>
    /\ nextId = 1
    /\ dataFile = NoFile
    /\ now = 1
    /\ ret = TRUE
    /\ hiId = {}
    /\ fresh = FALSE
    /\ prevIds = {}
    /\ out = <<>>
    /\ exportFile = NoFile

\* The value of session where the writes are not recorded, and its value
\* when a process that records them starts on the backing file f
NoSession == [on |-> FALSE, start |-> NoFile, wrote |-> FALSE, last |-> NoFile]

NewSession(f) == [on |-> TRUE, start |-> f, wrote |-> FALSE, last |-> NoFile]

Init == InitStore /\ call = NoLog /\ session = NoSession

\* The same, with the calls recorded
InitLogged == InitStore /\ call = "main" /\ session = NoSession

\* The same, with the writes recorded
InitSession == InitStore /\ call = NoLog /\ session = NewSession(NoFile)

\* A process starts on the backing file f
Begun(f) ==
    session' = IF session.on THEN NewSession(f) ELSE NoSession

\* A call that changes the Store returned ok and left the backing file f
Wrote(ok, f) ==
    session' = IF ~session.on \/ ~ok THEN session
               ELSE [session EXCEPT !.wrote = TRUE, !.last = f]

(***************************************************************************)
(* Operations                                                              *)
(***************************************************************************)
\* saveToFile that writes only when there is no backing file yet
saveToFileOnce(its) == IF dataFile.exists THEN dataFile ELSE SavedFile(its)

\* What saveToFile leaves in the backing file
saveToFile(its) == SavedFile(its)

\* main: the process starts, the id counter is 1, and the constructor of
\* InventoryManager runs loadFromFile.
NothingRead == [items |-> <<>>, nextId |-> 1, imported |-> 0, errors |-> 0]

\* The Store after loadFromFile gave r
Loaded(r) ==
    /\ items' = r.items
    /\ nextId' = r.nextId
    /\ hiId' = Raise({}, r.items)

Start ==
    /\ ~up
    /\ Loaded(IF dataFile.exists THEN ReadFile(dataFile, <<>>, 1)
              ELSE NothingRead)
    /\ up' = TRUE
    /\ fresh' = TRUE
    /\ ret' = TRUE
    /\ Called("main")
    /\ Begun(dataFile)
    /\ UNCHANGED <<dataFile, now, prevIds, out, exportFile>>

\* A process end whose destructor does not save
ShutdownKept ==
    /\ up
    /\ prevIds' = IdsOf(items)
    /\ up' = FALSE
    /\ items' = <<>>
    /\ nextId' = 1
    /\ hiId' = {}
    /\ fresh' = FALSE
    /\ ret' = TRUE
    /\ Called("exit")
    /\ UNCHANGED <<dataFile, now, out, exportFile, session>>

\* The process ends normally: ~InventoryManager runs saveToFile.
Shutdown ==
    /\ up
    /\ dataFile' = saveToFile(items)
    /\ prevIds' = IdsOf(items)
    /\ up' = FALSE
    /\ items' = <<>>
    /\ nextId' = 1
    /\ hiId' = {}
    /\ fresh' = FALSE
    /\ ret' = TRUE
    /\ Called("exit")
    /\ UNCHANGED <<now, out, exportFile, session>>

addItem(a, bc) ==
    /\ up
    /\ CounterSteps(nextId) < MaxNextId \/ nextId = INT_MAX
    /\ LET r == ItemCtor(nextId, a.name, a.category, a.quantity, a.cost,
                         a.sellingPrice, a.supplier, a.location,
                         a.minimumStock, now, bc)
       IN  /\ nextId' = r.nextId
           /\ IF r.ok
              THEN /\ Len(items) < MaxItems
                   /\ items' = Append(items, r.item)
                   /\ dataFile' = saveToFile(items')
                   /\ hiId' = Raise(hiId, items')
                   /\ fresh' = FALSE
                   /\ prevIds' = {}
                   /\ ret' = TRUE
              ELSE /\ ret' = FALSE
                   /\ UNCHANGED <<items, dataFile, hiId, fresh, prevIds>>
    /\ Called("addItem")
    /\ Wrote(ret', dataFile')
    /\ UNCHANGED <<up, now, out, exportFile>>

\* updateItem with the cost looked at only when a quantity is given
ApplyUpdateCoupled(it, newName, newQuantity, newCost, t) ==
    LET s1 == IF newName # <<>> THEN setName(it, newName, t)
              ELSE [ok |-> TRUE, item |-> it]
        s2 == IF ~s1.ok THEN s1
              ELSE IF newQuantity >= 0 THEN setQuantity(s1.item, newQuantity, t)
              ELSE s1
        s3 == IF ~s2.ok THEN s2
              ELSE IF newQuantity >= 0 /\ DblGeq(newCost, Dbl(0))
              THEN setCost(s2.item, newCost, t)
              ELSE s2
    IN  [threw |-> ~s3.ok, item |-> s3.item,
         updated |-> newName # <<>> \/ newQuantity >= 0
                     \/ DblGeq(newCost, Dbl(0))]

\* The three conditional setter calls of updateItem on the item it; a
\* throwing setter ends the sequence and keeps what was set before it.
ApplyUpdate(it, newName, newQuantity, newCost, t) ==
    LET s1 == IF newName # <<>> THEN setName(it, newName, t)
              ELSE [ok |-> TRUE, item |-> it]
        s2 == IF ~s1.ok THEN s1
              ELSE IF newQuantity >= 0 THEN setQuantity(s1.item, newQuantity, t)
              ELSE s1
        s3 == IF ~s2.ok THEN s2
              ELSE IF DblGeq(newCost, Dbl(0)) THEN setCost(s2.item, newCost, t)
              ELSE s2
    IN  [threw |-> ~s3.ok, item |-> s3.item,
         updated |-> newName # <<>> \/ newQuantity >= 0
                     \/ DblGeq(newCost, Dbl(0))]

updateItem(id, newName, newQuantity, newCost) ==
    /\ up
    /\ LET i == findItemById(items, id)
       IN  IF i = 0
           THEN /\ ret' = FALSE
                /\ UNCHANGED <<items, dataFile>>
           ELSE LET u == ApplyUpdate(items[i], newName, newQuantity, newCost, now)
                IN  /\ items' = [items EXCEPT ![i] = u.item]
                    /\ IF ~u.threw /\ u.updated
                       THEN /\ dataFile' = saveToFile(items')
                            /\ ret' = TRUE
                       ELSE /\ ret' = FALSE
                            /\ UNCHANGED dataFile
    /\ Called("updateItem")
    /\ Wrote(ret', dataFile')
    /\ UNCHANGED <<up, nextId, now, hiId, fresh, prevIds, out, exportFile>>

deleteItem(id) ==
    /\ up
    /\ LET i == findItemById(items, id)
       IN  IF i # 0
           THEN /\ items' = RemoveAt(items, i)
                /\ dataFile' = saveToFile(items')
                /\ ret' = TRUE
           ELSE /\ ret' = FALSE
                /\ UNCHANGED <<items, dataFile>>
    /\ Called("deleteItem")
    /\ Wrote(ret', dataFile')
    /\ UNCHANGED <<up, nextId, now, hiId, fresh, prevIds, out, exportFile>>

adjustQuantity(id, delta) ==
    /\ up
    /\ LET i == findItemById(items, id)
       IN  IF i = 0
           THEN /\ ret' = FALSE
                /\ UNCHANGED <<items, dataFile>>
           ELSE LET u == updateQuantity(items[i], delta, now)
                IN  IF u.ok
                    THEN /\ u.item.quantity <= MaxQty
                         /\ items' = [items EXCEPT ![i] = u.item]
                         /\ dataFile' = saveToFile(items')
                         /\ ret' = TRUE
                    ELSE /\ ret' = FALSE
                         /\ UNCHANGED <<items, dataFile>>
    /\ Called("adjustQuantity")
    /\ Wrote(ret', dataFile')
    /\ UNCHANGED <<up, nextId, now, hiId, fresh, prevIds, out, exportFile>>

\* The Store and the backing file after the read loop of importFromCSV
\* gave r
Imported(r) ==
    /\ Len(r.items) <= MaxItems
    /\ CounterInBounds(r.nextId)
    /\ items' = r.items
    /\ nextId' = r.nextId
    /\ dataFile' = saveToFile(r.items)
    /\ hiId' = Raise(hiId, r.items)
    /\ ret' = TRUE

\* importFromCSV on a path whose file is f (absent when it cannot be opened)
importFromCSV(f, clearExisting) ==
    /\ up
    /\ IF ~f.exists
       THEN /\ ret' = FALSE
            /\ UNCHANGED <<items, nextId, dataFile, hiId>>
       ELSE Imported(ReadFile(f, IF clearExisting THEN <<>> ELSE items, nextId))
    /\ Called("importFromCSV")
    /\ Wrote(ret', dataFile')
    /\ UNCHANGED <<up, now, fresh, prevIds, out, exportFile>>

\* The paths exportToCSV is given: the backing file's own path, another
\* path, and a path in a directory that does not exist
DataPath   == "inventory_data.csv"
ExportPath == "export.csv"
NoDirPath  == "nodir/export.csv"

ExportPaths == {DataPath, ExportPath, NoDirPath}

exportToCSV(filename) ==
    /\ up
    /\ IF filename = NoDirPath
       THEN /\ ret' = FALSE
            /\ UNCHANGED <<dataFile, exportFile>>
       ELSE /\ IF filename = DataPath
               THEN dataFile' = SavedFile(items) /\ UNCHANGED exportFile
               ELSE exportFile' = SavedFile(items) /\ UNCHANGED dataFile
            /\ ret' = TRUE
    /\ Called("exportToCSV")
    /\ UNCHANGED <<up, items, nextId, now, hiId, fresh, prevIds, out, session>>

\* searchItems collects the matching items and prints them
searchItems(searchTerm) ==
    /\ up
    /\ out' = SelectSeq(items, LAMBDA it : Matches(it, searchTerm))
    /\ Called("searchItems")
    /\ UNCHANGED <<up, items, nextId, dataFile, now, ret, hiId, fresh, prevIds, exportFile, session>>

\* showLowStockItems collects the low stock items and prints them
showLowStockItems ==
    /\ up
    /\ out' = SelectSeq(items, isLowStock)
    /\ Called("showLowStockItems")
    /\ UNCHANGED <<up, items, nextId, dataFile, now, ret, hiId, fresh, prevIds, exportFile, session>>

\* Item::getTotalValue: quantity * cost
getTotalValue(it) ==
    IF it.cost.nan THEN NaN ELSE Dbl(it.quantity * it.cost.c)

\* The comparison displayAnalytics gives std::sort: a comes before b
ValueGreater(a, b) == DblLess(getTotalValue(b), getTotalValue(a))

\* The orders std::sort may leave the items its in, as sequences of
\* positions of its: no item comes after one it compares before. std::sort
\* leaves the order of items that compare equal unspecified.
SortedOrders(its) ==
    {p \in [1..Len(its) -> 1..Len(its)] :
        /\ \A i, j \in 1..Len(its) : i # j => p[i] # p[j]
        /\ \A i, j \in 1..Len(its) :
              i < j => ~ValueGreater(its[p[j]], its[p[i]])}

\* The number of items displayAnalytics lists
TopCount == 5

\* The first TopCount items of its in the order p
TopOf(its, p) ==
    [k \in 1..(IF Len(its) < TopCount THEN Len(its) ELSE TopCount) |-> its[p[k]]]

\* displayAnalytics sorts a copy of the items by total value and prints
\* the first five of the copy
displayAnalytics ==
    /\ up
    /\ IF items = <<>> THEN out' = <<>>
       ELSE \E p \in SortedOrders(items) : out' = TopOf(items, p)
    /\ Called("displayAnalytics")
    /\ UNCHANGED <<up, items, nextId, dataFile, now, ret, hiId, fresh, prevIds, exportFile, session>>

\* displayItems prints a row with a status for every item
displayItems ==
    /\ up
    /\ out' = [k \in 1..Len(items) |-> Status(items[k], now)]
    /\ Called("displayItems")
    /\ UNCHANGED <<up, items, nextId, dataFile, now, ret, hiId, fresh, prevIds, exportFile, session>>

\* The clock advances
Tick ==
    /\ now < MaxNow
    /\ now' = now + 1
    /\ UNCHANGED <<up, items, nextId, dataFile, ret, hiId, fresh, prevIds, call, out, exportFile, session>>

\* The paths importFromCSV is given: a user's file, a path with no file,
\* or the backing file itself
ImportPaths == UserFiles \cup {NoFile, dataFile}

Next ==
    \/ Start
    \/ Shutdown
    \/ \E a \in AddInputs, bc \in GenBarcodes : addItem(a, bc)
    \/ \E id \in IdInputs, d \in DeltaInputs : adjustQuantity(id, d)
    \/ \E id \in IdInputs, q \in QtyInputs : updateItem(id, <<>>, q, Unset)
    \/ \E id \in IdInputs : deleteItem(id)
    \/ \E f \in ImportPaths, clear \in BOOLEAN : importFromCSV(f, clear)
    \/ Tick

Spec == Init /\ [][Next]_vars

\* One process that adds, updates and deletes, with updateItem called with
\* every combination of given and missing fields.
NextEdit ==
    \/ Start
    \/ \E a \in AddInputs, bc \in GenBarcodes : addItem(a, bc)
    \/ \E id \in IdInputs, n \in NameInputs, q \in QtyInputs, c \in CostInputs :
          updateItem(id, n, q, c)
    \/ \E id \in IdInputs : deleteItem(id)
    \/ Tick

SpecEdit == Init /\ [][NextEdit]_vars

\* One process with the calls recorded
NextCalls ==
    \/ Start
    \/ \E a \in AddInputs, bc \in GenBarcodes : addItem(a, bc)
    \/ \E id \in IdInputs, d \in DeltaInputs : adjustQuantity(id, d)
    \/ \E id \in IdInputs, q \in QtyInputs : updateItem(id, <<>>, q, Unset)
    \/ \E id \in IdInputs : deleteItem(id)
    \/ \E f \in ImportPaths, clear \in BOOLEAN : importFromCSV(f, clear)
    \/ Tick

SpecCalls == InitLogged /\ [][NextCalls]_vars

\* The items the listings are tried on: one at its minimum stock with an
\* upper-case supplier, one with a newline in its name, one above its
\* minimum stock
QueryAdds ==
    { AddArgs(<<"a">>, General, 1, Dbl(250), Dbl(400), <<"T">>, <<"w">>, 1),
      BasicArgs(<<"b", NL>>, 1, Dbl(0)),
      AddArgs(<<"c">>, General, 1, Dbl(0), Dbl(0), <<>>, <<>>, 0) }

\* a record whose barcode is Ab
LineLetterBarcode ==
    JoinComma(<< <<"3">>, <<"n">>, <<"x">>, <<>>, <<"A", "b">>, <<"0">>,
                 <<"5">>, <<"1">>, <<"0">>, <<"1">>, <<"1">>, <<"0">>,
                 <<>>, <<>> >>)

QueryFiles == {TextFile(TextOf(<<getCSVHeader, LineLetterBarcode>>))}

SearchTerms == {<<>>, <<"t">>, <<"1">>, <<"A", "B">>}

\* One process that adds, deletes, imports and lists
NextQuery ==
    \/ Start
    \/ \E a \in QueryAdds, bc \in GenBarcodes : addItem(a, bc)
    \/ \E id \in IdInputs : deleteItem(id)
    \/ \E f \in QueryFiles, clear \in BOOLEAN : importFromCSV(f, clear)
    \/ \E searchTerm \in SearchTerms : searchItems(searchTerm)
    \/ showLowStockItems
    \/ displayAnalytics

SpecQuery == InitLogged /\ [][NextQuery]_vars

\* Processes that add, delete, export and import what was exported
NextFiles ==
    \/ Start
    \/ Shutdown
    \/ \E a \in QueryAdds, bc \in GenBarcodes : addItem(a, bc)
    \/ \E id \in IdInputs : deleteItem(id)
    \/ \E filename \in ExportPaths : exportToCSV(filename)
    \/ \E clear \in BOOLEAN : importFromCSV(exportFile, clear)

SpecFiles == InitLogged /\ [][NextFiles]_vars

\* A record above its minimum stock with the expiry date expD
LineExpiring(idText, expD) ==
    JoinComma(<< idText, <<"a">>, General, <<>>, Barcode1, <<"9">>, <<"5">>,
                 <<"1">>, <<"0">>, <<"1">>, <<"1">>, expD, <<>>, <<>> >>)

\* The expiry dates in the files: never, the clock readings 1 and 2, and
\* more than 30 days after them
ExpiryDates == {<<"0">>, <<"1">>, <<"2">>, <<"2", "5", "9", "2", "0", "0", "3">>}

\* Files of one record with an expiry date
ExpiryFiles ==
    { TextFile(TextOf(<<getCSVHeader, LineExpiring(idText, expD)>>)) :
        idText \in {<<"1">>, <<"2">>}, expD \in ExpiryDates }

\* The thresholds isExpiringSoon is asked about: none, the default, and the
\* largest number of days whose seconds are an int and the next one
DaysInputs == {0, DefaultDays, 24855, 24856}

\* One process that imports records with expiry dates and lists them
NextExpiry ==
    \/ Start
    \/ \E f \in ExpiryFiles, clear \in BOOLEAN : importFromCSV(f, clear)
    \/ \E id \in IdInputs : deleteItem(id)
    \/ displayItems
    \/ Tick

SpecExpiry == InitLogged /\ [][NextExpiry]_vars

(***************************************************************************)
(* The basic variant: class Inventory of main.cpp                         *)
(***************************************************************************)
\* An Inventory as constructed: no items, nextId = 1
InventoryNew == [items |-> <<>>, nextId |-> 1]

\* Inventory::addItem
Inventory_addItem(inv, name, quantity, cost) ==
    [items |-> Append(inv.items, [id |-> inv.nextId, name |-> name,
                                  quantity |-> quantity, cost |-> cost]),
     nextId |-> IntAdd(inv.nextId, 1)]

\* The position of the first item with the id, 0 when there is none: the
\* loops of Inventory::updateItem and Inventory::deleteItem
Inventory_find(inv, id) ==
    IF \E i \in 1..Len(inv.items) : inv.items[i].id = id
    THEN CHOOSE i \in 1..Len(inv.items) :
            /\ inv.items[i].id = id
            /\ \A j \in 1..(i - 1) : inv.items[j].id # id
    ELSE 0

\* Inventory::updateItem
Inventory_updateItem(inv, id, newQuantity, newCost) ==
    LET i == Inventory_find(inv, id)
    IN  IF i = 0 THEN inv
        ELSE [inv EXCEPT !.items[i].quantity = newQuantity,
                         !.items[i].cost = newCost]

\* Inventory::deleteItem
Inventory_deleteItem(inv, id) ==
    LET i == Inventory_find(inv, id)
    IN  IF i = 0 THEN inv
        ELSE [inv EXCEPT !.items = SubSeq(inv.items, 1, i - 1)
                                   \o SubSeq(inv.items, i + 1, Len(inv.items))]

\* What both variants are given: names, and quantities and costs that are
\* not negative
BothNames == {<<"a">>, <<"b">>}
BothAddQtys == {1}
BothAddCosts == {Dbl(250)}
BothNewQtys == {0, 2}
BothNewCosts == {Dbl(0), Dbl(100)}

\* One process of the full variant, started with no backing file and given
\* the calls the basic variant has
NextBoth ==
    \/ Start
    \/ \E name \in BothNames, q \in BothAddQtys, c \in BothAddCosts, bc \in GenBarcodes :
          addItem(BasicArgs(name, q, c), bc)
    \/ \E id \in IdInputs, q \in BothNewQtys, c \in BothNewCosts :
          updateItem(id, <<>>, q, c)
    \/ \E id \in IdInputs : deleteItem(id)

SpecBoth == Init /\ [][NextBoth]_vars

\* The backing file as a user may have left it before the first process:
\* none, one with the header line, one whose first line is a record
RecordFirstFile == TextFile(TextOf(<<LineGood, LineBadId, LineGood>>))

FirstFiles ==
    {NoFile, TextFile(TextOf(<<getCSVHeader, LineGood>>)), RecordFirstFile}

InitUserData ==
    /\ up = FALSE
    /\ items = <<>>
    /\ nextId = 1
    /\ dataFile \in FirstFiles
    /\ now = 1
    /\ ret = TRUE
    /\ hiId = {}
    /\ fresh = FALSE
    /\ prevIds = {}
    /\ out = <<>>
    /\ exportFile = NoFile
    /\ call = "main"
    /\ session = NoSession

\* Processes that load, import and delete
NextFirstLine ==
    \/ Start
    \/ Shutdown
    \/ \E f \in UserFiles, clear \in BOOLEAN : importFromCSV(f, clear)
    \/ \E id \in IdInputs : deleteItem(id)

SpecFirstLine == InitUserData /\ [][NextFirstLine]_vars

\* Processes that add, adjust and delete, with the writes recorded
NextSession ==
    \/ Start
    \/ Shutdown
    \/ \E a \in QueryAdds, bc \in GenBarcodes : addItem(a, bc)
    \/ \E id \in IdInputs, d \in DeltaInputs : adjustQuantity(id, d)
    \/ \E id \in IdInputs : deleteItem(id)

SpecSession == InitSession /\ [][NextSession]_vars

(***************************************************************************)
(* Properties                                                              *)
(***************************************************************************)
\* The record a successful addItem step appended
Added == items'[Len(items')]

\* The step is a call of addItem that returned true
AddSucceeds ==
    \E a \in AddInputs, bc \in GenBarcodes :
        addItem(a, bc) /\ Len(items') = Len(items) + 1

\* C1: no two records of the Store have the same id.
C1_UniqueIds ==
    \A i, j \in 1..Len(items) : i # j => items[i].id # items[j].id

\* C2: within one process, the id a successful add assigns is greater than
\* every id the Store has held before in that process, whether the record
\* was added, loaded or imported, and whether it has been deleted since.
C2_AddIdAboveEarlier ==
    [][AddSucceeds => \A h \in hiId : Added.id > h]_vars

\* C3: the first successful add of a process yields an id greater than
\* every id the Store held when the previous process ended and persisted it.
C3_FirstAddAbovePersisted ==
    [][(fresh /\ AddSucceeds) => \A p \in prevIds : Added.id > p]_vars

Valid(it) ==
    /\ it.name # <<>>
    /\ it.quantity >= 0
    /\ DblGeq(it.cost, Dbl(0))
    /\ DblGeq(it.sellingPrice, Dbl(0))

\* C4: every record of the Store has a non-empty name and a quantity, a
\* cost and a selling price that are not negative.
C4_RecordsValid == \A i \in 1..Len(items) : Valid(items[i])

\* C5: every record of the Store has a minimum stock that is not negative.
C5_MinimumStockNotNegative ==
    \A i \in 1..Len(items) : items[i].minimumStock >= 0

\* C6: every record of the Store was last modified no earlier than it was
\* added.
C6_ModifiedNotBeforeAdded ==
    \A i \in 1..Len(items) : items[i].lastModified >= items[i].dateAdded

\* The fields the round trip is stated for
RoundTripFields(it) ==
    <<it.id, it.name, it.category, it.supplier, it.barcode, it.quantity,
      it.minimumStock, it.dateAdded, it.lastModified, it.expiryDate,
      it.location, it.description>>

\* The decoding d succeeded and gave back the fields of it
DecodesTo(d, it) == d.ok /\ RoundTripFields(d.item) = RoundTripFields(it)

\* fromCSV decodes what toCSV wrote for it, and gives back the fields of it
RoundTrips(it) == DecodesTo(fromCSV(toCSV(it), nextId), it)

\* C7: for every valid record, fromCSV applied to toCSV of the record gives
\* a record equal to it in id, name, category, supplier, barcode, quantity,
\* minimum stock, the three dates, location and description; stated of the
\* records the Store comes to hold.
C7_RoundTrip ==
    \A i \in 1..Len(items) : Valid(items[i]) => RoundTrips(items[i])

\* C8: addItem with an empty name, a negative quantity, a negative cost or
\* a negative selling price returns false, and the Store's records and the
\* backing file are as they were before the call.
C8_InvalidAddChangesNothing ==
    [][\A a \in InvalidAdds, bc \in GenBarcodes :
          addItem(a, bc) =>
              /\ ret' = FALSE
              /\ items' = items
              /\ dataFile' = dataFile]_vars

\* An add has failed in a Store that holds one record, which the backing
\* file holds too, and the id the failed add took was the last int.
C8_Witness ==
    /\ ret = FALSE
    /\ Len(items) = 1
    /\ items[1].id = INT_MAX - 1
    /\ dataFile = saveToFile(items)
    /\ nextId = INT_MIN

\* C9: adjustQuantity on an existing record returns false when quantity +
\* delta is negative, and then the record's quantity and lastModified and
\* the backing file are unchanged; otherwise it returns true, the record's
\* quantity is quantity + delta, and every other record is unchanged.
C9_AdjustQuantity ==
    [][\A id \in IdInputs, d \in DeltaInputs :
          (adjustQuantity(id, d) /\ findItemById(items, id) # 0) =>
              LET i == findItemById(items, id)
              IN  IF items[i].quantity < 0 - d
                  THEN /\ ret' = FALSE
                       /\ Len(items') = Len(items)
                       /\ items'[i].quantity = items[i].quantity
                       /\ items'[i].lastModified = items[i].lastModified
                       /\ dataFile' = dataFile
                  ELSE /\ ret' = TRUE
                       /\ Len(items') = Len(items)
                       /\ items'[i].quantity - d = items[i].quantity
                       /\ \A j \in 1..Len(items) :
                              j # i => items'[j] = items[j]]_vars

\* The record updateItem worked on, with the four fields it may touch set
\* back to what they were
Untouched(new, old) ==
    [new EXCEPT !.name = old.name, !.quantity = old.quantity,
                !.cost = old.cost, !.lastModified = old.lastModified] = old

\* C10: updateItem on an existing record sets the name exactly when the
\* given name is not empty, the quantity exactly when the given quantity is
\* not negative and the cost exactly when the given cost is not negative,
\* each whatever the other two are; the record keeps its position, its id
\* and every other field but lastModified, and the other records are
\* unchanged.
C10_UpdateFieldwise ==
    [][\A id \in IdInputs, n \in NameInputs, q \in QtyInputs, c \in CostInputs :
          (updateItem(id, n, q, c) /\ findItemById(items, id) # 0) =>
              LET i == findItemById(items, id)
              IN  /\ Len(items') = Len(items)
                  /\ items'[i].name = IF n # <<>> THEN n ELSE items[i].name
                  /\ items'[i].quantity = IF q >= 0 THEN q ELSE items[i].quantity
                  /\ items'[i].cost = IF DblGeq(c, Dbl(0)) THEN c
                                      ELSE items[i].cost
                  /\ Untouched(items'[i], items[i])
                  /\ \A j \in 1..Len(items) :
                         j # i => items'[j] = items[j]]_vars

\* The second of two records has the name and the cost only updateItem
\* gives and the quantity it was added with; the first is as it was added.
C10_Witness ==
    /\ ret = TRUE
    /\ Len(items) = 2
    /\ items[1].name = <<"a">>
    /\ items[1].cost = Dbl(250)
    /\ items[2].name = <<"z">>
    /\ items[2].quantity = 1
    /\ items[2].cost = Dbl(0)
    /\ items[2].id = 2

\* C11: updateItem, deleteItem and adjustQuantity called with an id that no
\* record of the Store has return false and leave the Store's records, the
\* id counter and the backing file as they were.
C11_MissingIdChangesNothing ==
    [][\A id \in IdInputs :
          id \notin IdsOf(items) =>
              \/ /\ ret' = FALSE
                 /\ items' = items
                 /\ nextId' = nextId
                 /\ dataFile' = dataFile
              \/ /\ \A n \in NameInputs, q \in QtyInputs, c \in CostInputs :
                        ~updateItem(id, n, q, c)
                 /\ ~deleteItem(id)
                 /\ \A d \in DeltaInputs : ~adjustQuantity(id, d)]_vars

\* deleteItem has returned false in a Store whose one record has id 2 and
\* is the record the backing file holds.
C11_Witness ==
    /\ call = "deleteItem"
    /\ ret = FALSE
    /\ Len(items) = 1
    /\ items[1].id = 2
    /\ dataFile = saveToFile(items)

\* C12: after deleteItem(id) has returned true, the Store holds one record
\* less than before and no record with that id.
C12_DeletedIdIsGone ==
    [][\A id \in IdInputs :
          (deleteItem(id) /\ ret') =>
              /\ Len(items') = Len(items) - 1
              /\ id \notin IdsOf(items')]_vars

\* The step is a call of one of the five mutating operations
MutatingCall ==
    \/ \E a \in AddInputs, bc \in GenBarcodes : addItem(a, bc)
    \/ \E id \in IdInputs, n \in NameInputs, q \in QtyInputs, c \in CostInputs :
          updateItem(id, n, q, c)
    \/ \E id \in IdInputs : deleteItem(id)
    \/ \E id \in IdInputs, d \in DeltaInputs : adjustQuantity(id, d)
    \/ \E f \in ImportPaths, clear \in BOOLEAN : importFromCSV(f, clear)

DecodedRecord(p) ==
    MkItem(p.id, p.name, p.category, p.supplier, p.barcode, p.quantity,
           p.minimumStock, p.cost, p.sellingPrice, p.dateAdded, p.lastModified,
           p.expiryDate, p.location, p.description)

\* A line is well-formed when it has the 14 fields, its numeric fields are
\* numbers, and the record it stands for is valid
WellFormed(p) ==
    p.enough /\ p.argsOk /\ p.restOk /\ Valid(DecodedRecord(p))

\* The records of the well-formed lines among ps, in their order
RECURSIVE DecodedOf(_)
DecodedOf(ps) ==
    IF ps = <<>> THEN <<>>
    ELSE (IF WellFormed(Head(ps)) THEN <<DecodedRecord(Head(ps))>> ELSE <<>>)
         \o DecodedOf(Tail(ps))

\* The counts of the read loop are v and m, and the store after it is the
\* records base followed by the records of the well-formed lines
CountsAndStore(r, ps, base, its) ==
    /\ r.imported = Len(DecodedOf(ps))
    /\ r.errors = Len(ps) - Len(DecodedOf(ps))
    /\ its = base \o DecodedOf(ps)

\* C14: importFromCSV on a file that opens, with v well-formed and m
\* malformed non-empty lines after the first, counts v imported and m
\* errors and returns true, and the Store is then the records it held (none
\* when clearExisting) followed by the v decoded records in the file's
\* order, each with the id written in the file.
C14_ImportCounts ==
    [][\A f \in ImportPaths, clear \in BOOLEAN :
          (importFromCSV(f, clear) /\ f.exists) =>
              /\ ret' = TRUE
              /\ CountsAndStore(ReadFile(f, IF clear THEN <<>> ELSE items, nextId),
                                Parsed(f), IF clear THEN <<>> ELSE items, items')]_vars

\* The file at the path exportToCSV is given
FileAt(filename, data, exported) ==
    IF filename = DataPath THEN data
    ELSE IF filename = ExportPath THEN exported
    ELSE NoFile

\* C15: exportToCSV, whatever path it is given, leaves the Store's records,
\* the id counter and the backing file as they were, and when it returns
\* true the file at the path holds the header line and then the encoding of
\* every record of the Store, in the Store's order.
C15_ExportLeavesStoreAndFile ==
    [][\A filename \in ExportPaths :
          exportToCSV(filename) =>
              /\ items' = items
              /\ nextId' = nextId
              /\ dataFile' = dataFile
              /\ ret' => /\ FileAt(filename, dataFile', exportFile').exists
                         /\ FileText(FileAt(filename, dataFile', exportFile'))
                                = SaveText(items)]_vars

\* C16: the construction of the Store always completes; without a backing
\* file the Store starts empty, and with one it holds exactly the records
\* of the well-formed non-empty lines after the first, in the file's order,
\* the malformed lines being passed over.
C16_LoadWellFormedLines ==
    [][(~up /\ up') =>
          items' = IF dataFile.exists THEN DecodedOf(Parsed(dataFile))
                   ELSE <<>>]_vars

\* The text with its upper-case letters replaced by lower-case ones
LowerCased(str) ==
    [k \in 1..Len(str) |->
        IF \E u \in 1..26 : UpperCase[u] = str[k]
        THEN LowerCase[CHOOSE u \in 1..26 : UpperCase[u] = str[k]]
        ELSE str[k]]

\* sub is a run of consecutive characters of str
IsSubstring(sub, str) ==
    \E i \in 1..(Len(str) + 1), j \in 0..Len(str) : SubSeq(str, i, j) = sub

\* The record is one a search for the term lists
Searched(it, term) ==
    \/ IsSubstring(LowerCased(term), LowerCased(it.name))
    \/ IsSubstring(LowerCased(term), LowerCased(it.category))
    \/ IsSubstring(LowerCased(term), LowerCased(it.supplier))
    \/ IsSubstring(term, it.barcode)

\* C17: searchItems collects, in the Store's order, exactly the records for
\* which the lower-cased term is a substring of the lower-cased name,
\* category or supplier, or the term as given is a substring of the
\* barcode; it changes neither the Store nor the backing file.
C17_SearchMatches ==
    [][\A term \in SearchTerms :
          searchItems(term) =>
              /\ out' = SelectSeq(items, LAMBDA it : Searched(it, term))
              /\ items' = items
              /\ nextId' = nextId
              /\ dataFile' = dataFile]_vars

\* A search has listed the second of two records, whose supplier is T, and
\* not the first, which has no supplier.
C17_Witness ==
    /\ call = "searchItems"
    /\ Len(items) = 2
    /\ items[1].supplier = <<>>
    /\ items[2].supplier = <<"T">>
    /\ out = <<items[2]>>

\* C18: showLowStockItems collects, in the Store's order, exactly the
\* records whose quantity is at most their minimum stock, those with the
\* quantity equal to the minimum stock included.
C18_LowStockListed ==
    [][showLowStockItems =>
          out' = SelectSeq(items, LAMBDA it : it.quantity <= it.minimumStock)]_vars

\* The listing holds the second of two records, whose quantity equals its
\* minimum stock, and not the first, whose quantity is above it.
C18_Witness ==
    /\ call = "showLowStockItems"
    /\ Len(items) = 2
    /\ items[1].quantity > items[1].minimumStock
    /\ items[2].quantity = items[2].minimumStock
    /\ out = <<items[2]>>

\* Position of the first record of the Store with the id, which some
\* record has
FirstWith(id) ==
    CHOOSE i \in 1..Len(items) :
        /\ items[i].id = id
        /\ \A j \in 1..(i - 1) : items[j].id # id

IdAndStrings(it) ==
    <<it.id, it.name, it.category, it.supplier, it.barcode, it.location,
      it.description>>

\* C20: when a process constructs the Store from the backing file an
\* earlier process persisted a Store to, the Store loaded has as many
\* records as the Store persisted, in the same order, with the same ids and
\* string fields, also when a name holds a comma, a quote or a newline.
C20_ReloadKeepsRecords ==
    [][(~up /\ up' /\ dataFile.exists /\ dataFile.saved) =>
          /\ Len(items') = Len(dataFile.records)
          /\ \A i \in 1..Len(items') :
                 IdAndStrings(items'[i]) = IdAndStrings(dataFile.records[i])]_vars

\* The files f and g are both absent or hold the same text
SameContent(f, g) ==
    /\ f.exists = g.exists
    /\ f.exists => FileText(f) = FileText(g)

\* The step is the normal end of a process
ProcessEnds == up /\ ~up'

StableOrder(its) ==
    CHOOSE p \in [1..Len(its) -> 1..Len(its)] :
        /\ \A i, j \in 1..Len(its) : i # j => p[i] # p[j]
        /\ \A i, j \in 1..Len(its) :
              i < j => \/ its[p[j]].quantity * its[p[j]].cost.c
                            < its[p[i]].quantity * its[p[i]].cost.c
                       \/ /\ its[p[j]].quantity * its[p[j]].cost.c
                             = its[p[i]].quantity * its[p[i]].cost.c
                          /\ p[i] < p[j]

\* C22: displayAnalytics lists the min(5, count) records of highest total
\* value (quantity * cost) in descending order of total value, records of
\* equal total value in Store order, and leaves the Store as it was.
C22_TopFiveStable ==
    [][\/ call' # "displayAnalytics"
       \/ /\ items' = items
          /\ Len(out') = (IF Len(items) < 5 THEN Len(items) ELSE 5)
          /\ \A k \in 1..Len(out') : out'[k] = items[StableOrder(items)[k]]]_vars

\* The lines of the file f after its first line
AfterFirstLine(f) ==
    LET lines == getlines(FileText(f))
    IN  IF lines = <<>> THEN <<>> ELSE Tail(lines)

\* What the read loop gives when it decodes the non-empty lines of f after
\* the first and nothing else
WithoutFirstLine(f, base, nid) ==
    ReadLoop(ParseEach(AfterFirstLine(f)), base, nid, 0, 0)

\* The number of non-empty lines among lines
NonEmpty(lines) == Cardinality({k \in 1..Len(lines) : lines[k] # <<>>})

\* C23: importFromCSV and loadFromFile never decode the first line of the
\* file, whatever it holds: the Store and the id counter after them are
\* those that decoding the lines after the first alone gives, and the
\* imported and error counts add up to the number of non-empty lines after
\* the first.
C23_FirstLineDiscarded ==
    [][/\ \A f \in UserFiles, clear \in BOOLEAN :
            \/ call' # "importFromCSV"
            \/ ~importFromCSV(f, clear)
            \/ /\ items' = WithoutFirstLine(f, IF clear THEN <<>> ELSE items, nextId).items
               /\ nextId' = WithoutFirstLine(f, IF clear THEN <<>> ELSE items, nextId).nextId
               /\ ReadFile(f, <<>>, nextId).imported + ReadFile(f, <<>>, nextId).errors
                     = NonEmpty(AfterFirstLine(f))
       /\ (~up /\ up' /\ dataFile.exists) =>
             /\ items' = WithoutFirstLine(dataFile, <<>>, 1).items
             /\ nextId' = WithoutFirstLine(dataFile, <<>>, 1).nextId]_vars

\* A process has loaded a backing file whose first and third lines are the
\* same well-formed record: the Store holds it once.
C23_Witness ==
    /\ up
    /\ call = "main"
    /\ dataFile = RecordFirstFile
    /\ Len(items) = 1
    /\ nextId = 3

\* The number of lines among the parsed lines ps whose decoding constructs
\* an Item: the line has its 14 fields and the numbers the constructor is
\* given parse
Constructions(ps) ==
    Cardinality({k \in 1..Len(ps) : ps[k].enough /\ ps[k].argsOk})

\* C24: within a process the id counter never decreases, every call of
\* addItem advances it, whether it returns true or false, and importFromCSV
\* advances it by at least one for every line whose decoding constructs an
\* Item, whether the line is then accepted or rejected.
C24_CounterAdvances ==
    [][/\ (up /\ up') => nextId' >= nextId
       /\ \A a \in AddInputs, bc \in GenBarcodes :
             addItem(a, bc) => nextId' > nextId
       /\ \A f \in ImportPaths, clear \in BOOLEAN :
             (f.exists /\ importFromCSV(f, clear)) =>
                 nextId' - Constructions(Parsed(f)) >= nextId]_vars

\* C25: a record that isExpired() at a clock reading isExpiringSoon(days)
\* at that reading for every days >= 0, and displayItems gives no record
\* the status EXPIRED.
C25_ExpiredIsExpiringSoon ==
    [][/\ \A k \in 1..Len(items), days \in DaysInputs :
             (items[k].expiryDate # 0 /\ items[k].expiryDate <= now)
                 => isExpiringSoon(items[k], days, now)
       /\ call' = "displayItems" =>
             \A k \in 1..Len(out') : out'[k] # "EXPIRED"]_vars

\* The (id, name, quantity, cost) of the records its, with the id counter
\* nid: the full variant's Store seen as an Inventory of the basic variant
AsInventory(its, nid) ==
    [items |-> [k \in 1..Len(its) |->
                   [id |-> its[k].id, name |-> its[k].name,
                    quantity |-> its[k].quantity, cost |-> its[k].cost]],
     nextId |-> nid]

\* C26: started with no backing file, the full variant begins where the
\* basic variant begins (no records, ids starting at 1), and every add with
\* a non-empty name and non-negative quantity and cost, every update of
\* quantity and cost to non-negative values (updateItem(id, "", q, c)) and
\* every delete takes its (id, name, quantity, cost) sequence and id counter
\* to those the basic variant's call gives from the same sequence; an added
\* id is above every id held before.
C26_VariantsAgree ==
    [][/\ (~up /\ up') => AsInventory(items', nextId') = InventoryNew
       /\ \A name \in BothNames, q \in BothAddQtys, c \in BothAddCosts, bc \in GenBarcodes :
             addItem(BasicArgs(name, q, c), bc) =>
                 /\ AsInventory(items', nextId')
                      = Inventory_addItem(AsInventory(items, nextId), name, q, c)
                 /\ \A h \in hiId : items'[Len(items')].id > h
       /\ \A id \in IdInputs, q \in BothNewQtys, c \in BothNewCosts :
             updateItem(id, <<>>, q, c) =>
                 AsInventory(items', nextId')
                   = Inventory_updateItem(AsInventory(items, nextId), id, q, c)
       /\ \A id \in IdInputs :
             deleteItem(id) =>
                 AsInventory(items', nextId')
                   = Inventory_deleteItem(AsInventory(items, nextId), id)]_vars

\* Two records have been added, the first deleted and the second updated
C26_Witness ==
    /\ up
    /\ Len(items) = 1
    /\ items[1].id = 2
    /\ items[1].quantity = 2
    /\ items[1].cost = Dbl(100)
    /\ nextId = 3

====
